---- MODULE Spec2Model ----
(***************************************************************************)
(* A model of semgrep's SARIF formatter (cli/src/semgrep/formatter/sarif.py).*)
(* Python strings are sequences of one-character strings, so that join,     *)
(* strip and len are computed and not assumed.  A formatted message is the  *)
(* record of the parts the f-string interpolates.                           *)
(***************************************************************************)
EXTENDS Integers, Sequences, FiniteSets, TLC

VARIABLES
    pc,          \* position of the running call
    files,       \* path -> the lines of the file, line breaks kept
    location,    \* the out.Location handed to _create_sarif_location_dict
    rule_match,  \* the RuleMatch being serialized
    var_type,    \* the role handed to the flattener
    taint_obj,   \* the trace node handed to the flattener
    rule,        \* the Rule whose descriptor is built
    rules,       \* the rules handed to format
    rule_matches,               \* the matches handed to format
    semgrep_structured_errors,  \* the errors handed to format
    schedule,    \* extra["dataflow_traces"] of the successive calls of format
    outputs,     \* what the calls of format made so far returned
    ret          \* what the call returned

inputs == <<files, location, rule_match, var_type, taint_obj, rule, rules,
            rule_matches, semgrep_structured_errors, schedule>>

vars == <<pc, inputs, outputs, ret>>

----------------------------------------------------------------------------
(* Bounds of the model *)

MaxLines == 5    \* lines of a source file
MaxSpan == 1     \* end.line - start.line of a location
MaxCol == 1      \* largest column of a location
MaxDepth == 3    \* Wrapper and Call levels of the traces of one match
MaxVars == 1     \* intermediate variables of one Call or of one trace
MaxRules == 2    \* rules of one call of format
MaxErrors == 2   \* structured errors of one call of format
MaxMatches == 1  \* matches of one call of format

----------------------------------------------------------------------------
(* Strings *)

NL == "\n"
Whitespace == {" ", NL}

Min(a, b) == IF a < b THEN a ELSE b
Max(a, b) == IF a < b THEN b ELSE a

\* "".join(parts)
RECURSIVE Join(_)
Join(parts) == IF parts = <<>> THEN <<>> ELSE Head(parts) \o Join(Tail(parts))

\* s.lstrip(chars): every leading character of chars is removed
RECURSIVE LStrip(_, _)
LStrip(s, chars) ==
    IF s # <<>> /\ Head(s) \in chars THEN LStrip(Tail(s), chars) ELSE s

\* s.rstrip(chars): every trailing character of chars is removed
RECURSIVE RStrip(_, _)
RStrip(s, chars) ==
    IF s # <<>> /\ s[Len(s)] \in chars
    THEN RStrip(SubSeq(s, 1, Len(s) - 1), chars)
    ELSE s

\* s.strip()
Strip(s) == LStrip(RStrip(s, Whitespace), Whitespace)

----------------------------------------------------------------------------
(* Snippet extraction *)

\* semgrep.util.get_lines: the lines start_line..end_line (1-based, both
\* included) of the file, as far as the file has them
GetLines(path, start_line, end_line) ==
    SubSeq(files[path], Max(start_line, 1), Min(end_line, Len(files[path])))

GenerateTaintSnippet(loc) ==
    LET content ==
            RStrip(Join(GetLines(loc.path, loc.start.line, loc.end.line + 2)),
                   {NL})
        snippet_before ==
            LStrip(Join(GetLines(loc.path, loc.start.line - 2,
                                 loc.end.line - 1)),
                   {NL})
    IN  [snippet |-> snippet_before \o content,
         start_highlight |-> Len(snippet_before) + loc.start.col,
         end_highlight |-> Len(snippet_before) + loc.end.col]

\* The f-string of line 55, as the parts it interpolates
LocationMessage(vtype, snippet, loc) ==
    [var_type |-> vtype, snippet |-> Strip(snippet),
     path |-> loc.path, line |-> loc.start.line]

\* nestingLevel is a key of the dict only when nesting_level is not -1
CreateSarifLocationDict(vtype, snippet, loc, rm, nesting_level) ==
    LET taint == GenerateTaintSnippet(loc)
        message == LocationMessage(vtype, snippet, loc)
    IN  [message |-> message,
         uri |-> rm.path,
         startLine |-> loc.start.line,
         startColumn |-> taint.start_highlight,
         endLine |-> loc.end.line,
         endColumn |-> taint.end_highlight,
         snippet |-> taint.snippet,
         regionMessage |-> message,
         nestingLevel |-> IF nesting_level # -1 THEN <<nesting_level>> ELSE <<>>]

----------------------------------------------------------------------------
(* Trace nodes.  A CliLoc holds (Location, str), a CliCall holds            *)
(* ((Location, str), [intermediate vars], trace), a CliMatchCallTrace wraps *)
(* one node; an absent Optional is None.                                    *)

None == [kind |-> "None"]
Some(v) == [kind |-> "Some", value |-> v]
Raise(e) == [kind |-> "Raise", error |-> e]

CliLoc(loc_snip) == [kind |-> "CliLoc", value |-> loc_snip]
CliCall(loc_snip, ivars, trace) ==
    [kind |-> "CliCall",
     value |-> [loc_snip |-> loc_snip, vars |-> ivars, trace |-> trace]]
CliMatchCallTrace(node) == [kind |-> "CliMatchCallTrace", value |-> node]

Source == <<"S", "o", "u", "r", "c", "e">>
Sink == <<"S", "i", "n", "k">>
Propagator == <<"P", "r", "o", "p", "a", "g", "a", "t", "o", "r", " ">>

\* str.lower() on the letters the roles use
LowerChar(c) ==
    CASE c = "S" -> "s" [] c = "I" -> "i" [] c = "N" -> "n" [] c = "K" -> "k"
      [] c = "P" -> "p" [] c = "O" -> "o" [] c = "U" -> "u" [] c = "R" -> "r"
      [] c = "C" -> "c" [] c = "E" -> "e" [] OTHER -> c
Lower(s) == [i \in 1..Len(s) |-> LowerChar(s[i])]

Reverse(s) == [i \in 1..Len(s) |-> s[Len(s) + 1 - i]]

----------------------------------------------------------------------------
(* The taint-node flattener *)

TaintObjIntermediateVarsToThreadFlowLocationsSarif(intermediate_var, rm) ==
    CreateSarifLocationDict(Propagator, Join(intermediate_var.content),
                            intermediate_var.location, rm, 0)

\* The comparison of line 128 without .lower()
IsSinkTypeCaseSensitive(vtype) == vtype = <<"s", "i", "n", "k">> \/ vtype = <<"S", "i", "n", "k">>

\* line 128: the role that gets the sink's treatment
IsSinkType(vtype) == Lower(vtype) = <<"s", "i", "n", "k">>

\* Line 121 left out: the call's own location keeps the incoming role
CallVarTypeKept(vtype) == vtype

\* line 121: a call's own location is a propagation point
CallVarType(vtype) == Propagator

\* Lines 127-136 with line 129 left out: the sink's entry keeps nesting level 0
TerminalLocationAtLevel0(vtype, snippet, loc, rm) ==
    CreateSarifLocationDict(vtype,
                            IF IsSinkType(vtype) THEN Join(rm.lines) ELSE snippet,
                            loc, rm, 0)

\* lines 127-136: the entry of the node's own location
TerminalLocation(vtype, snippet, loc, rm) ==
    CreateSarifLocationDict(vtype,
                            IF IsSinkType(vtype) THEN Join(rm.lines) ELSE snippet,
                            loc, rm,
                            IF IsSinkType(vtype) THEN 1 ELSE 0)

\* lines 109-114
CallIntermediateVars(obj, rm) ==
    [i \in 1..Len(obj.value.vars) |->
        TaintObjIntermediateVarsToThreadFlowLocationsSarif(obj.value.vars[i], rm)]

RECURSIVE RecTaintObjToThreadFlowLocationsSarif(_, _, _)
RecTaintObjToThreadFlowLocationsSarif(vtype, obj, rm) ==
    LET of_trace ==
            IF obj.kind = "CliMatchCallTrace"
            THEN RecTaintObjToThreadFlowLocationsSarif(vtype, obj.value, rm)
            ELSE <<>>
        of_call ==
            IF obj.kind = "CliCall"
            THEN RecTaintObjToThreadFlowLocationsSarif(vtype, obj.value.trace, rm)
                 \o CallIntermediateVars(obj, rm)
            ELSE <<>>
        taint_trace == of_trace \o of_call
    IN  IF obj.kind = "CliLoc"
        THEN taint_trace \o
             <<TerminalLocation(vtype, Join(obj.value.content),
                                obj.value.location, rm)>>
        ELSE IF obj.kind = "CliCall"
        THEN taint_trace \o
             <<TerminalLocation(CallVarType(vtype),
                                Join(obj.value.loc_snip.content),
                                obj.value.loc_snip.location, rm)>>
        ELSE taint_trace

----------------------------------------------------------------------------
(* The thread-flow assembler *)

\* Python truth of an Optional object and of a list
IsPresent(x) == x.kind # "None"

TaintSourceToThreadFlowLocationsSarif(rm) ==
    IF ~IsPresent(rm.dataflow_trace) THEN None
    ELSE IF ~IsPresent(rm.dataflow_trace.taint_source) THEN None
    ELSE Some(RecTaintObjToThreadFlowLocationsSarif(
                  Source, rm.dataflow_trace.taint_source, rm))

\* The loop of lines 160-169 starting one step late
IntermediateVarsSkippingFirst(rm) ==
    IF ~IsPresent(rm.dataflow_trace) THEN None
    ELSE IF rm.dataflow_trace.intermediate_vars = <<>> THEN None
    ELSE Some([i \in 1..(Len(rm.dataflow_trace.intermediate_vars) - 1) |->
                 CreateSarifLocationDict(
                     Propagator,
                     Join(rm.dataflow_trace.intermediate_vars[i + 1].content),
                     rm.dataflow_trace.intermediate_vars[i + 1].location, rm, 0)])

IntermediateVarsToThreadFlowLocationsSarif(rm) ==
    IF ~IsPresent(rm.dataflow_trace) THEN None
    ELSE IF rm.dataflow_trace.intermediate_vars = <<>> THEN None
    ELSE Some([i \in 1..Len(rm.dataflow_trace.intermediate_vars) |->
                 CreateSarifLocationDict(
                     Propagator,
                     Join(rm.dataflow_trace.intermediate_vars[i].content),
                     rm.dataflow_trace.intermediate_vars[i].location, rm, 0)])

\* Lines 200-204 without the [::-1]
SinkThreadTraceInCallOrder(rm) ==
    RecTaintObjToThreadFlowLocationsSarif(Sink, rm.dataflow_trace.taint_sink, rm)

\* lines 200-204: the sink's entries, turned round
SinkThreadTrace(rm) ==
    Reverse(RecTaintObjToThreadFlowLocationsSarif(
                Sink, rm.dataflow_trace.taint_sink, rm))

DataflowTraceToThreadFlowsSarif(rm) ==
    IF ~IsPresent(rm.dataflow_trace) THEN None
    ELSE
      LET of_source ==
              IF IsPresent(rm.dataflow_trace.taint_source)
              THEN TaintSourceToThreadFlowLocationsSarif(rm).value
              ELSE <<>>
          of_vars ==
              IF rm.dataflow_trace.intermediate_vars # <<>>
                 /\ IsPresent(IntermediateVarsToThreadFlowLocationsSarif(rm))
              THEN IntermediateVarsToThreadFlowLocationsSarif(rm).value
              ELSE <<>>
      IN  Some(<<[locations |-> of_source \o of_vars \o SinkThreadTrace(rm)]>>)

\* lines 222-225: what taint_source.value is an instance of; the value of a
\* CliLoc or of a CliCall is a tuple, an instance of neither class
ValueKind(obj) ==
    IF obj.kind = "CliMatchCallTrace" THEN obj.value.kind ELSE "tuple"

\* lines 227-232: the f-string, as the parts it interpolates
CodeflowMessage(loc, rm) ==
    [source_path |-> loc.path, source_line |-> loc.start.line,
     match_path |-> rm.path, match_line |-> rm.start.line]

\* `location` is bound by neither branch of lines 222-225 when
\* taint_source.value is neither a CliCall nor a CliLoc: line 229 then raises
DataflowTraceToCodeflowSarif(rm) ==
    IF ~IsPresent(rm.dataflow_trace) THEN None
    ELSE IF ~IsPresent(rm.dataflow_trace.taint_source) THEN None
    ELSE
      LET taint_source == rm.dataflow_trace.taint_source
          thread_flows == DataflowTraceToThreadFlowsSarif(rm)
      IN  IF ValueKind(taint_source) = "CliCall"
          THEN Some([message |->
                        CodeflowMessage(taint_source.value.value.loc_snip.location, rm),
                     threadFlows |-> thread_flows.value])
          ELSE IF ValueKind(taint_source) = "CliLoc"
          THEN Some([message |->
                        CodeflowMessage(taint_source.value.value.location, rm),
                     threadFlows |-> thread_flows.value])
          ELSE Raise("UnboundLocalError")

----------------------------------------------------------------------------
(* Rule tags.  A metadata value is None when its key is absent, a str or a  *)
(* list; semgrep.policy is a dict whose slug may be absent.                 *)

Str(v) == [kind |-> "str", value |-> v]
List(v) == [kind |-> "list", value |-> v]
Dict(slug) == [kind |-> "dict", slug |-> slug]

\* The characters of the tags, in code point order
Alphabet ==
    <<" ", "-", "0", "1", "2", "3", "4", "5", "6", "7", "8", "9",
      "A", "B", "C", "D", "E", "F", "G", "H", "I", "J", "K", "L", "M",
      "N", "O", "P", "Q", "R", "S", "T", "U", "V", "W", "X", "Y", "Z",
      "a", "b", "c", "d", "e", "f", "g", "h", "i", "j", "k", "l", "m",
      "n", "o", "p", "q", "r", "s", "t", "u", "v", "w", "x", "y", "z">>

Ord(c) == CHOOSE i \in 1..Len(Alphabet) : Alphabet[i] = c

\* a < b on Python strings
RECURSIVE StrLess(_, _)
StrLess(a, b) ==
    IF b = <<>> THEN FALSE
    ELSE IF a = <<>> THEN TRUE
    ELSE IF Head(a) = Head(b) THEN StrLess(Tail(a), Tail(b))
    ELSE Ord(Head(a)) < Ord(Head(b))

\* set(result)
SetOf(seq) == {seq[i] : i \in 1..Len(seq)}

\* sorted(a set of strings)
RECURSIVE Sorted(_)
Sorted(S) ==
    IF S = {} THEN <<>>
    ELSE LET least == CHOOSE x \in S : \A y \in S \ {x} : StrLess(x, y)
         IN  <<least>> \o Sorted(S \ {least})

\* The elements of a list in the order of their first occurrence
RECURSIVE FirstOccurrences(_)
FirstOccurrences(seq) ==
    IF seq = <<>> THEN <<>>
    ELSE LET front == FirstOccurrences(SubSeq(seq, 1, Len(seq) - 1))
         IN  IF seq[Len(seq)] \in SetOf(front) THEN front
             ELSE Append(front, seq[Len(seq)])

SecurityTag == <<"s", "e", "c", "u", "r", "i", "t", "y">>
OwaspPrefix == <<"O", "W", "A", "S", "P", "-">>
ConfidenceSuffix == <<" ", "C", "O", "N", "F", "I", "D", "E", "N", "C", "E">>

\* lines 398-422: the list the tags are collected in
TagResult(r) ==
    LET md == r.metadata
        of_cwe ==
            IF IsPresent(md.cwe)
            THEN (IF md.cwe.kind = "list" THEN md.cwe.value ELSE <<md.cwe.value>>)
                 \o <<SecurityTag>>
            ELSE <<>>
        of_owasp ==
            IF IsPresent(md.owasp)
            THEN IF md.owasp.kind = "list"
                 THEN [i \in 1..Len(md.owasp.value) |-> OwaspPrefix \o md.owasp.value[i]]
                 ELSE <<OwaspPrefix \o md.owasp.value>>
            ELSE <<>>
        of_confidence ==
            IF IsPresent(md.confidence) /\ md.confidence.value # <<>>
            THEN <<md.confidence.value \o ConfidenceSuffix>>
            ELSE <<>>
        of_policy ==
            IF IsPresent(md.policy) /\ IsPresent(md.policy.slug)
            THEN <<md.policy.slug.value>>
            ELSE <<>>
        of_tags == IF IsPresent(md.tags) THEN md.tags.value ELSE <<>>
    IN  of_cwe \o of_owasp \o of_confidence \o of_policy \o of_tags

\* The return of line 424 without sorted()
RuleToSarifTagsUnsorted(r) == FirstOccurrences(TagResult(r))

RuleToSarifTags(r) == Sorted(SetOf(TagResult(r)))

----------------------------------------------------------------------------
(* Serializers.  A dict key that may be absent is a list of at most one     *)
(* value.                                                                   *)

Optional(v) == IF IsPresent(v) THEN <<v.value>> ELSE <<>>

\* "\n".join(parts)
RECURSIVE JoinLines(_)
JoinLines(parts) ==
    IF parts = <<>> THEN <<>>
    ELSE IF Len(parts) = 1 THEN parts[1]
    ELSE parts[1] \o <<NL>> \o JoinLines(Tail(parts))

\* mapping.get(severity, "warning") in place of mapping[severity]
RuleToSarifSeverityWithDefault(r) ==
    IF r.severity = "INFO" THEN Some("note")
    ELSE IF r.severity = "ERROR" THEN Some("error")
    ELSE Some("warning")

\* mapping[rule.severity] raises KeyError for a severity that is no key
RuleToSarifSeverity(r) ==
    IF r.severity = "INFO" THEN Some("note")
    ELSE IF r.severity = "WARNING" THEN Some("warning")
    ELSE IF r.severity = "ERROR" THEN Some("error")
    ELSE Raise("KeyError")

\* f"[{r}]({r})"
MarkdownLink(text, url) == [text |-> text, url |-> url]

RuleReferences(r) ==
    LET md == r.metadata
        of_source ==
            IF IsPresent(md.source)
            THEN <<MarkdownLink("Semgrep Rule", md.source.value)>>
            ELSE <<>>
        of_references ==
            IF IsPresent(md.references) /\ md.references.value # <<>>
            THEN IF md.references.kind = "list"
                 THEN [i \in 1..Len(md.references.value) |->
                          MarkdownLink(md.references.value[i], md.references.value[i])]
                 ELSE <<MarkdownLink(md.references.value, md.references.value)>>
            ELSE <<>>
    IN  of_source \o of_references

RuleToSarif(r) ==
    LET severity == RuleToSarifSeverity(r)
        md == r.metadata
        references == RuleReferences(r)
        help_of_references ==
            IF references # <<>>
            THEN <<[text |-> r.message,
                    markdown |-> [message |-> r.message, references |-> references]]>>
            ELSE <<>>
    IN  IF severity.kind = "Raise" THEN severity
        ELSE Some(
          [id |-> r.id,
           name |-> r.id,
           shortDescription |->
               IF IsPresent(md.shortDescription) /\ md.shortDescription.value # ""
               THEN <<md.shortDescription.value>>
               ELSE <<"Semgrep Finding: ", r.id>>,
           fullDescription |-> r.message,
           level |-> severity.value,
           precision |-> "very-high",
           tags |-> RuleToSarifTags(r),
           security_severity |-> Optional(md.security_severity),
           helpUri |-> Optional(md.source),
           help |->
               IF IsPresent(md.help) /\ md.help.value # ""
               THEN <<[text |-> md.help.value]>>
               ELSE help_of_references])

RuleMatchToSarifFix(rm) ==
    IF ~IsPresent(rm.fixed_lines) \/ rm.fixed_lines.value = <<>> THEN None
    ELSE Some([description |-> <<rm.message, "\n Autofix: ", "Semgrep rule suggested fix">>,
               uri |-> rm.path,
               startLine |-> rm.start.line, startColumn |-> rm.start.col,
               endLine |-> rm.end.line, endColumn |-> rm.end.col,
               insertedContent |-> JoinLines(rm.fixed_lines.value)])

\* Line 268 without its first conjunct
RuleMatchToSarifWithoutToggle(rm, dataflow_traces) ==
    LET code_flows ==
            IF IsPresent(rm.dataflow_trace)
            THEN DataflowTraceToCodeflowSarif(rm)
            ELSE None
    IN  IF code_flows.kind = "Raise" THEN code_flows
        ELSE Some(
          [ruleId |-> rm.rule_id,
           message |-> rm.message,
           uri |-> rm.path,
           uriBaseId |-> "%SRCROOT%",
           snippet |-> RStrip(Join(rm.lines), Whitespace),
           startLine |-> rm.start.line, startColumn |-> rm.start.col,
           endLine |-> rm.end.line, endColumn |-> rm.end.col,
           fingerprints |-> rm.match_based_id,
           codeFlows |-> Optional(code_flows),
           suppressions |-> IF rm.is_ignored THEN <<"inSource">> ELSE <<>>,
           fixes |-> Optional(RuleMatchToSarifFix(rm)),
           exposure |-> Optional(rm.exposure_type)])

RuleMatchToSarif(rm, dataflow_traces) ==
    LET code_flows ==
            IF dataflow_traces /\ IsPresent(rm.dataflow_trace)
            THEN DataflowTraceToCodeflowSarif(rm)
            ELSE None
    IN  IF code_flows.kind = "Raise" THEN code_flows
        ELSE Some(
          [ruleId |-> rm.rule_id,
           message |-> rm.message,
           uri |-> rm.path,
           uriBaseId |-> "%SRCROOT%",
           snippet |-> RStrip(Join(rm.lines), Whitespace),
           startLine |-> rm.start.line, startColumn |-> rm.start.col,
           endLine |-> rm.end.line, endColumn |-> rm.end.col,
           fingerprints |-> rm.match_based_id,
           codeFlows |-> Optional(code_flows),
           suppressions |-> IF rm.is_ignored THEN <<"inSource">> ELSE <<>>,
           fixes |-> Optional(RuleMatchToSarifFix(rm)),
           exposure |-> Optional(rm.exposure_type)])

\* error_to_sarif_level[error_dict["level"]] raises KeyError for a level
\* that is neither "error" nor "warn"
SemgrepErrorToSarifNotification(error) ==
    LET message ==
            IF IsPresent(error.message) THEN error.message.value
            ELSE IF IsPresent(error.long_msg) THEN error.long_msg.value
            ELSE IF IsPresent(error.short_msg) THEN error.short_msg.value
            ELSE ""
    IN  IF error.level = "error"
        THEN Some([descriptor |-> error.type, message |-> message, level |-> "error"])
        ELSE IF error.level = "warn"
        THEN Some([descriptor |-> error.type, message |-> message, level |-> "warning"])
        ELSE Raise("KeyError")

\* The first exception of the elements, evaluated in order, or their values
Collect(results) ==
    IF \E i \in 1..Len(results) : results[i].kind = "Raise"
    THEN results[CHOOSE i \in 1..Len(results) :
                    /\ results[i].kind = "Raise"
                    /\ \A j \in 1..(i - 1) : results[j].kind # "Raise"]
    ELSE Some([i \in 1..Len(results) |-> results[i].value])

\* The document: json.dumps with sorted keys writes one text per dict, so the
\* record stands for the text
Format(rs, matches, errors, dataflow_traces) ==
    LET of_rules == Collect([i \in 1..Len(rs) |-> RuleToSarif(rs[i])])
        of_matches ==
            Collect([i \in 1..Len(matches) |->
                        RuleMatchToSarif(matches[i], dataflow_traces)])
        of_errors ==
            Collect([i \in 1..Len(errors) |->
                        SemgrepErrorToSarifNotification(errors[i])])
    IN  IF of_rules.kind = "Raise" THEN of_rules
        ELSE IF of_matches.kind = "Raise" THEN of_matches
        ELSE IF of_errors.kind = "Raise" THEN of_errors
        ELSE Some([version |-> "2.1.0",
                   name |-> "semgrep",
                   rules |-> of_rules.value,
                   results |-> of_matches.value,
                   executionSuccessful |-> TRUE,
                   toolExecutionNotifications |-> of_errors.value])

----------------------------------------------------------------------------
(* Inputs *)

Letter(i) == <<"a", "b", "c", "d", "e", "f", "g", "h", "i", "j">>[i]

\* Files of n lines: line i is blank or holds its own letter; the last line
\* may lack its line break
FileContents(n) ==
    {[i \in 1..n |->
        IF i \in blank THEN <<NL>>
        ELSE IF i = n /\ ~closed THEN <<Letter(i)>>
        ELSE <<Letter(i), NL>>] :
     blank \in SUBSET (1..n), closed \in BOOLEAN}

Position == [line : 1..MaxLines, col : 0..MaxCol]

\* Locations of a file of n lines: end is not before start
LocationsIn(path, n) ==
    {l \in [path : {path}, start : Position, end : Position] :
        /\ l.start.line <= l.end.line
        /\ l.end.line <= Min(n, l.start.line + MaxSpan)
        /\ (l.start.line = l.end.line => l.start.col <= l.end.col)}

MatchPath == "match.py"
SourcePath == "source.py"

MatchLines == << <<" ", "m", NL>>, <<"n", NL>> >>

PlainMatch ==
    [path |-> MatchPath,
     start |-> [line |-> 2, col |-> 1],
     end |-> [line |-> 3, col |-> 1],
     lines |-> MatchLines,
     rule_id |-> "rule-1",
     message |-> "tainted",
     match_based_id |-> "fingerprint-1",
     is_ignored |-> FALSE,
     fixed_lines |-> None,
     exposure_type |-> None,
     dataflow_trace |-> None]

SinkPath == "sink.py"

Digit(j) == <<"0", "1", "2", "3", "4", "5", "6", "7", "8", "9">>[j + 1]

\* The (Location, str) pair of step j of level k of one side of a trace: no
\* two of them share a location or a snippet
Item(side, k, j) ==
    [location |-> [path |-> side,
                   start |-> [line |-> k + 1, col |-> j],
                   end |-> [line |-> k + 1, col |-> j + 1]],
     content |-> << <<" ", Letter(k + 1)>>, <<Digit(j), NL>> >>]

ItemVars(side, k, n) == [j \in 1..n |-> Item(side, k, j)]

\* The trace nodes of at most d levels below level k: every shape of Leaf,
\* Wrapper and Call
RECURSIVE Nodes(_, _, _)
Nodes(side, k, d) ==
    {CliLoc(Item(side, k, 0))} \cup
    (IF d = 0 THEN {}
     ELSE {CliMatchCallTrace(n) : n \in Nodes(side, k + 1, d - 1)} \cup
          {CliCall(Item(side, k, 0), ItemVars(side, k, nv), n) :
              nv \in 0..MaxVars, n \in Nodes(side, k + 1, d - 1)})

RECURSIVE Depth(_)
Depth(obj) ==
    IF obj.kind = "CliMatchCallTrace" THEN 1 + Depth(obj.value)
    ELSE IF obj.kind = "CliCall" THEN 1 + Depth(obj.value.trace)
    ELSE 0

Traces ==
    {t \in [kind : {"CliMatchDataflowTrace"},
            taint_source : Nodes(SourcePath, 0, MaxDepth) \cup {None},
            intermediate_vars : {ItemVars(MatchPath, 0, n) : n \in 0..MaxVars},
            taint_sink : Nodes(SinkPath, 0, MaxDepth) \cup {None}] :
        Depth(t.taint_source) + Depth(t.taint_sink) <= MaxDepth}

WithTrace(rm, trace) == [rm EXCEPT !.dataflow_trace = trace]

FlowFile == [i \in 1..MaxLines |-> <<Letter(i), NL>>]

VarTypes ==
    {Source, Sink, Propagator, <<"S", "I", "N", "K">>, <<"s", "i", "n", "k">>}

Cwe79 == <<"C", "W", "E", "-", "7", "9">>
Cwe89 == <<"C", "W", "E", "-", "8", "9">>
OwaspA1 == <<"A", "1">>
OwaspA3 == <<"A", "3">>
High == <<"H", "I", "G", "H">>
Slug == <<"r", "u", "l", "e", "-", "b", "o", "a", "r", "d", "-", "b", "l", "o", "c", "k">>
Xss == <<"x", "s", "s">>
Audit == <<"a", "u", "d", "i", "t">>

\* Every combination of an absent or present cwe, owasp, confidence,
\* semgrep.policy and tags, as a str, a list, a list out of order or with a
\* repeated element, or holding a tag another key also yields
Metadatas ==
    [cwe : {None, Str(Cwe79), List(<<Cwe89, Cwe79>>), List(<<Cwe79, Cwe79>>)},
     owasp : {None, Str(OwaspA1), List(<<OwaspA3, OwaspA1>>)},
     confidence : {None, Str(<<>>), Str(High)},
     policy : {None, Dict(None), Dict(Str(Slug))},
     tags : {None, List(<<>>), List(<<Xss, Audit, Xss>>),
             List(<<SecurityTag, OwaspPrefix \o OwaspA1>>), List(<<Cwe79, Slug>>)},
     security_severity : {None}, source : {None}, references : {None},
     shortDescription : {None}, help : {None}]

NoMetadata ==
    [cwe |-> None, owasp |-> None, confidence |-> None, policy |-> None,
     tags |-> None, security_severity |-> None, source |-> None,
     references |-> None, shortDescription |-> None, help |-> None]

RichMetadata ==
    [cwe |-> Str(Cwe79), owasp |-> None, confidence |-> Str(High),
     policy |-> None, tags |-> List(<<Xss>>),
     security_severity |-> Str("8.1"), source |-> Str("https://semgrep.dev/r/1"),
     references |-> List(<<"https://owasp.org">>),
     shortDescription |-> Str("short"), help |-> None]

RuleOf(severity) ==
    [id |-> "rule-1", severity |-> severity, message |-> "finding",
     metadata |-> IF severity \in {"WARNING", "INVENTORY"} THEN RichMetadata
                  ELSE NoMetadata]

PlainRule == RuleOf("WARNING")

\* RuleSeverity has more members than the three the mapping knows
Severities == {"INFO", "WARNING", "ERROR", "INVENTORY"}

\* Level has more members than the two the mapping knows
ErrorPool ==
    {[type |-> "SemgrepError", level |-> "error", message |-> Str("failed"),
      long_msg |-> Str("long"), short_msg |-> Str("short")],
     [type |-> "Syntax error", level |-> "warn", message |-> None,
      long_msg |-> None, short_msg |-> Str("short")],
     [type |-> "Timeout", level |-> "info", message |-> None,
      long_msg |-> Str("long"), short_msg |-> None]}

SeqsUpTo(S, n) == UNION {[1..k -> S] : k \in 0..n}

RulePool == {RuleOf(v) : v \in Severities}

\* The toggle of the successive calls: every pair, and a call between two
\* calls of the other setting
Schedules ==
    {<<FALSE, FALSE>>, <<FALSE, TRUE>>, <<TRUE, FALSE>>, <<TRUE, TRUE>>,
     <<TRUE, FALSE, TRUE>>, <<FALSE, TRUE, FALSE>>}

\* Traces of a match of format: none, one without a taint_source, a taint
\* source inside a Wrapper, around a Leaf or around a Call, and a bare Leaf
FormatTraces ==
    {None} \cup
    {t \in Traces :
        /\ t.intermediate_vars = ItemVars(MatchPath, 0, 1)
        /\ t.taint_sink = CliMatchCallTrace(CliLoc(Item(SinkPath, 1, 0)))
        /\ t.taint_source \in
             {None,
              CliLoc(Item(SourcePath, 0, 0)),
              CliMatchCallTrace(CliLoc(Item(SourcePath, 1, 0))),
              CliMatchCallTrace(CliCall(Item(SourcePath, 1, 0), <<>>,
                                        CliLoc(Item(SourcePath, 2, 0))))}}

MatchPool ==
    {[WithTrace(PlainMatch, t) EXCEPT !.is_ignored = v[1], !.fixed_lines = v[2],
                                      !.exposure_type = v[3]] :
        t \in FormatTraces,
        v \in {<<FALSE, None, None>>,
               <<TRUE, List(<< <<"f">>, <<"g">> >>), None>>,
               <<FALSE, List(<<>>), Str("reachable")>>}}

\* No call of format is made
NoFormat ==
    /\ rules = <<>>
    /\ rule_matches = <<>>
    /\ semgrep_structured_errors = <<>>
    /\ schedule = <<>>
    /\ outputs = <<>>

----------------------------------------------------------------------------
(* The snippet extractor, called on every location of every file *)

InitSnippet ==
    /\ pc = "create_location"
    /\ \E n \in 1..MaxLines :
          /\ files \in [{SourcePath} -> FileContents(n)]
          /\ location \in LocationsIn(SourcePath, n)
    /\ rule_match = PlainMatch
    /\ var_type = Source
    /\ taint_obj = None
    /\ rule = PlainRule
    /\ NoFormat
    /\ ret = None

CallCreateSarifLocationDict ==
    /\ pc = "create_location"
    /\ \E nesting_level \in {-1, 0, 1} :
          ret' = CreateSarifLocationDict(Source, <<" ", "x", NL>>, location,
                                         rule_match, nesting_level)
    /\ pc' = "created"
    /\ UNCHANGED <<inputs, outputs>>

NextSnippet == CallCreateSarifLocationDict

SpecSnippet == InitSnippet /\ [][NextSnippet]_vars

----------------------------------------------------------------------------
(* The flattener and the assembler, called on every trace *)

InitFlow ==
    /\ files = [p \in {SourcePath, MatchPath, SinkPath} |-> FlowFile]
    /\ location = Item(SourcePath, 0, 0).location
    /\ rule = PlainRule
    /\ NoFormat
    /\ ret = None
    /\ \/ /\ pc = "rec"
          /\ var_type \in VarTypes
          /\ taint_obj \in Nodes(SinkPath, 0, MaxDepth) \cup {None}
          /\ rule_match = PlainMatch
       \/ /\ pc \in {"thread_flows", "codeflow"}
          /\ var_type = Source
          /\ taint_obj = None
          /\ \E trace \in Traces \cup {None} :
                rule_match = WithTrace(PlainMatch, trace)

CallRecTaintObj ==
    /\ pc = "rec"
    /\ ret' = Some(RecTaintObjToThreadFlowLocationsSarif(var_type, taint_obj,
                                                         rule_match))
    /\ pc' = "rec_returned"
    /\ UNCHANGED <<inputs, outputs>>

CallDataflowTraceToThreadFlows ==
    /\ pc = "thread_flows"
    /\ ret' = DataflowTraceToThreadFlowsSarif(rule_match)
    /\ pc' = "thread_flows_returned"
    /\ UNCHANGED <<inputs, outputs>>

CallDataflowTraceToCodeflow ==
    /\ pc = "codeflow"
    /\ ret' = DataflowTraceToCodeflowSarif(rule_match)
    /\ pc' = "codeflow_returned"
    /\ UNCHANGED <<inputs, outputs>>

NextFlow ==
    \/ CallRecTaintObj
    \/ CallDataflowTraceToThreadFlows
    \/ CallDataflowTraceToCodeflow

SpecFlow == InitFlow /\ [][NextFlow]_vars

----------------------------------------------------------------------------
(* The tags of a rule, for every metadata *)

InitTags ==
    /\ pc = "tags"
    /\ files = [p \in {SourcePath, MatchPath, SinkPath} |-> FlowFile]
    /\ location = Item(SourcePath, 0, 0).location
    /\ rule_match = PlainMatch
    /\ var_type = Source
    /\ taint_obj = None
    /\ \E md \in Metadatas : rule = [PlainRule EXCEPT !.metadata = md]
    /\ NoFormat
    /\ ret = None

CallRuleToSarifTags ==
    /\ pc = "tags"
    /\ ret' = Some(RuleToSarifTags(rule))
    /\ pc' = "tags_returned"
    /\ UNCHANGED <<inputs, outputs>>

NextTags == CallRuleToSarifTags

SpecTags == InitTags /\ [][NextTags]_vars

----------------------------------------------------------------------------
(* format, called several times on the same rules, matches and errors *)

InitFormat ==
    /\ pc = "format"
    /\ files = [p \in {SourcePath, MatchPath, SinkPath} |-> FlowFile]
    /\ location = Item(SourcePath, 0, 0).location
    /\ rule_match = PlainMatch
    /\ var_type = Source
    /\ taint_obj = None
    /\ rule = PlainRule
    /\ \/ /\ rules \in SeqsUpTo(RulePool, MaxRules)
          /\ semgrep_structured_errors \in SeqsUpTo(ErrorPool, 1)
          /\ rule_matches = <<PlainMatch>>
       \/ /\ rules \in SeqsUpTo(RulePool, 1)
          /\ semgrep_structured_errors \in SeqsUpTo(ErrorPool, MaxErrors)
          /\ rule_matches = <<PlainMatch>>
       \/ /\ rules = <<PlainRule>>
          /\ semgrep_structured_errors \in SeqsUpTo(ErrorPool, 1)
          /\ rule_matches \in SeqsUpTo(MatchPool, MaxMatches)
    /\ schedule \in Schedules
    /\ outputs = <<>>
    /\ ret = None

CallFormat ==
    /\ pc = "format"
    /\ Len(outputs) < Len(schedule)
    /\ ret' = Format(rules, rule_matches, semgrep_structured_errors,
                     schedule[Len(outputs) + 1])
    /\ outputs' = Append(outputs, ret')
    /\ pc' = IF Len(outputs') = Len(schedule) THEN "format_returned" ELSE "format"
    /\ UNCHANGED inputs

NextFormat == CallFormat

Spec == InitFormat /\ [][NextFormat]_vars

----------------------------------------------------------------------------
(* Claims about the snippet extractor *)

StripBreaks(s) == LStrip(RStrip(s, {NL}), {NL})

\* The lines start.line-2 .. end.line+2 that the file has
Window(loc) == GetLines(loc.path, loc.start.line - 2, loc.end.line + 2)

\* The lines that precede the span, at most two, without leading line breaks
Preceding(loc) ==
    LStrip(Join(GetLines(loc.path, loc.start.line - 2, loc.start.line - 1)),
           {NL})

\* C3: the extended snippet of every location, of one line or of several, is
\* the text of the available lines start.line-2 .. end.line+2, each once and
\* in file order.  Line breaks at the two ends of the text are left out of
\* the comparison, since the extractor trims there.
C3_WindowOnce ==
    pc = "created" => StripBreaks(ret.snippet) = StripBreaks(Join(Window(location)))

\* C4: with L the length of the text that precedes the span, startColumn is
\* L + start.col and endColumn is L + end.col, for spans of one or of several
\* lines.
C4_HighlightOffsets ==
    pc = "created" =>
        /\ ret.startColumn = Len(Preceding(location)) + location.start.col
        /\ ret.endColumn = Len(Preceding(location)) + location.end.col

IsSingleLine(loc) == loc.start.line = loc.end.line

SingleLineWindowOnce == IsSingleLine(location) => C3_WindowOnce
SingleLineOffsets == IsSingleLine(location) => C4_HighlightOffsets

----------------------------------------------------------------------------
(* Claims about the flattener and the assembler *)

\* The entry e is at the location of the item
AtItem(e, item) ==
    LET d == CreateSarifLocationDict(Source, <<>>, item.location, rule_match, -1)
    IN  /\ e.message.path = d.message.path
        /\ e.message.line = d.message.line
        /\ e.startLine = d.startLine
        /\ e.startColumn = d.startColumn
        /\ e.endLine = d.endLine
        /\ e.endColumn = d.endColumn

\* The snippet an entry shows: the text between the quotes of its message
ShownSnippet(text) == Strip(Join(text))

IsPropagatorAtLevel0(e) ==
    e.message.var_type = Propagator /\ e.nestingLevel = <<0>>

ItemA == Item(SourcePath, 0, 0)
ItemB == Item(MatchPath, 0, 1)
ItemC == Item(SinkPath, 1, 0)
ItemD == Item(SinkPath, 0, 1)
ItemE == Item(SinkPath, 0, 0)

\* Source=Leaf(A), intermediate_vars=[B], Sink=Call(inner=Leaf(C), vars=[D],
\* terminal=Leaf(E))
ScenarioTrace ==
    [kind |-> "CliMatchDataflowTrace",
     taint_source |-> CliLoc(ItemA),
     intermediate_vars |-> <<ItemB>>,
     taint_sink |-> CliCall(ItemE, <<ItemD>>, CliLoc(ItemC))]

ScenarioAssembled ==
    pc = "thread_flows_returned" /\ rule_match.dataflow_trace = ScenarioTrace

ScenarioOrder(locs) ==
    /\ Len(locs) = 5
    /\ AtItem(locs[1], ItemA)
    /\ AtItem(locs[2], ItemB)
    /\ AtItem(locs[3], ItemE)
    /\ AtItem(locs[4], ItemD)
    /\ AtItem(locs[5], ItemC)
    /\ IsPropagatorAtLevel0(locs[2])
    /\ IsPropagatorAtLevel0(locs[4])

\* C1, as stated: the scenario's list is [A, B, E, D, C], E has nesting level
\* 1 and the match's joined lines as its snippet, B and D are Propagators of
\* nesting level 0.
C1_ScenarioAsStated ==
    ScenarioAssembled =>
        LET locs == ret.value[1].locations
        IN  /\ ScenarioOrder(locs)
            /\ locs[3].nestingLevel = <<1>>
            /\ locs[3].message.snippet = ShownSnippet(rule_match.lines)

\* C1, amended: the scenario's list is [A, B, E, D, C]; B, D and the call's
\* own location E are Propagators of nesting level 0, E with its own snippet;
\* the sink's innermost leaf C, last in the list, has role Sink, nesting
\* level 1 and the match's joined lines as its snippet.
C1_ScenarioAmended ==
    ScenarioAssembled =>
        LET locs == ret.value[1].locations
        IN  /\ ScenarioOrder(locs)
            /\ IsPropagatorAtLevel0(locs[3])
            /\ locs[3].message.snippet = ShownSnippet(ItemE.content)
            /\ locs[5].message.var_type = Sink
            /\ locs[5].nestingLevel = <<1>>
            /\ locs[5].message.snippet = ShownSnippet(rule_match.lines)
            /\ locs[1].message.var_type = Source
            /\ locs[1].nestingLevel = <<0>>

C1_Witness == ScenarioAssembled /\ Len(ret.value[1].locations) = 5

\* The locations a node holds: one per Leaf, one per Call and one per
\* intermediate variable of a Call
RECURSIVE NodeCount(_)
NodeCount(obj) ==
    IF obj.kind = "CliMatchCallTrace" THEN NodeCount(obj.value)
    ELSE IF obj.kind = "CliCall"
    THEN NodeCount(obj.value.trace) + Len(obj.value.vars) + 1
    ELSE IF obj.kind = "CliLoc" THEN 1
    ELSE 0

HasSource(rm) ==
    IsPresent(rm.dataflow_trace) /\ IsPresent(rm.dataflow_trace.taint_source)

PropagatorEntries(ivars) ==
    [i \in 1..Len(ivars) |->
        CreateSarifLocationDict(Propagator, Join(ivars[i].content),
                                ivars[i].location, rule_match, 0)]

StoredSnippet(e) ==
    LET items == {Item(e.message.path, k, j) : k \in 0..MaxDepth, j \in 0..MaxVars}
    IN  (CHOOSE item \in items : AtItem(e, item)).content

\* A node's own location is step 0 of its level
IsTerminalEntry(e) == \E k \in 0..MaxDepth : AtItem(e, Item(e.message.path, k, 0))

\* C5: in every flattened trace, a terminal entry whose role is "Sink" in any
\* letter case shows the match's joined lines and has nesting level 1; every
\* other terminal entry shows its node's own stored snippet and has nesting
\* level 0.
C5_SinkSnippetOverride ==
    pc = "rec_returned" =>
        \A i \in 1..Len(ret.value) :
            LET e == ret.value[i]
            IN  IsTerminalEntry(e) =>
                  IF Lower(e.message.var_type) = Lower(Sink)
                  THEN /\ e.message.snippet = ShownSnippet(rule_match.lines)
                       /\ e.nestingLevel = <<1>>
                  ELSE /\ e.message.snippet = ShownSnippet(StoredSnippet(e))
                       /\ e.nestingLevel = <<0>>

C5_Witness ==
    /\ pc = "rec_returned"
    /\ var_type = <<"S", "I", "N", "K">>
    /\ taint_obj.kind = "CliCall"
    /\ \E i \in 1..Len(ret.value) :
          /\ ret.value[i].nestingLevel = <<1>>
          /\ ret.value[i].message.snippet = ShownSnippet(rule_match.lines)
    /\ \E i \in 1..Len(ret.value) :
          /\ IsTerminalEntry(ret.value[i])
          /\ ret.value[i].nestingLevel = <<0>>

\* The taint_source's own terminal location: a Leaf's location, a Call's own
\* location, and through one Wrapper the same of the node it wraps
OwnTerminalLocation(obj) ==
    IF obj.kind = "CliLoc" THEN obj.value.location
    ELSE IF obj.kind = "CliCall" THEN obj.value.loc_snip.location
    ELSE IF obj.value.kind = "CliLoc" THEN obj.value.value.location
    ELSE obj.value.value.loc_snip.location

IsLeafOrCall(obj) == obj.kind \in {"CliLoc", "CliCall"}

\* A Leaf, a Call, or a Wrapper around either
IsClaimedSource(obj) ==
    \/ IsLeafOrCall(obj)
    \/ obj.kind = "CliMatchCallTrace" /\ IsLeafOrCall(obj.value)

\* C6: the assembler returns nothing when the match has no trace or the trace
\* no taint_source; for a taint_source that is a Leaf, a Call or a Wrapper
\* around either it does not fail and returns a code flow whose message names
\* the taint_source's own terminal location and the match's path and start
\* line.
C6_CodeflowSummary ==
    pc = "codeflow_returned" =>
        IF ~HasSource(rule_match) THEN ret = None
        ELSE IsClaimedSource(rule_match.dataflow_trace.taint_source) =>
               /\ ret.kind = "Some"
               /\ ret.value.message =
                    LET loc == OwnTerminalLocation(rule_match.dataflow_trace.taint_source)
                    IN  [source_path |-> loc.path, source_line |-> loc.start.line,
                         match_path |-> rule_match.path,
                         match_line |-> rule_match.start.line]

\* The same for a taint_source that is a Wrapper around a Leaf or a Call
WrappedSourceSummary ==
    (HasSource(rule_match)
     /\ rule_match.dataflow_trace.taint_source.kind = "CliMatchCallTrace")
        => C6_CodeflowSummary

RECURSIVE EndsInLeaf(_)
EndsInLeaf(obj) ==
    IF obj.kind = "CliLoc" THEN TRUE
    ELSE IF obj.kind = "CliMatchCallTrace" THEN EndsInLeaf(obj.value)
    ELSE IF obj.kind = "CliCall" THEN EndsInLeaf(obj.value.trace)
    ELSE FALSE

\* The (Location, str) pair of the Leaf that chain ends in
RECURSIVE InnermostLeaf(_)
InnermostLeaf(obj) ==
    IF obj.kind = "CliMatchCallTrace" THEN InnermostLeaf(obj.value)
    ELSE IF obj.kind = "CliCall" THEN InnermostLeaf(obj.value.trace)
    ELSE obj.value

\* The positions of the list whose entry has nesting level 1
AtLevel1(locs) == {i \in 1..Len(locs) : locs[i].nestingLevel = <<1>>}

\* C11: for every match with a trace and a taint_source whose taint_sink is a
\* chain of Wrappers and Calls ending in a Leaf, the assembled list has exactly
\* one entry of nesting level 1; it is the last of the list, is at the
\* innermost Leaf of the sink and has role Sink; every other entry has
\* nesting level 0.
C11_SingleSinkEntry ==
    (/\ pc = "thread_flows_returned"
     /\ HasSource(rule_match)
     /\ EndsInLeaf(rule_match.dataflow_trace.taint_sink)) =>
        LET locs == ret.value[1].locations
            last == Len(locs)
        IN  /\ AtLevel1(locs) = {last}
            /\ AtItem(locs[last], InnermostLeaf(rule_match.dataflow_trace.taint_sink))
            /\ locs[last].message.var_type = Sink
            /\ \A i \in 1..(last - 1) : locs[i].nestingLevel = <<0>>

C11_Witness ==
    /\ pc = "thread_flows_returned"
    /\ HasSource(rule_match)
    /\ rule_match.dataflow_trace.taint_source.kind = "CliCall"
    /\ rule_match.dataflow_trace.taint_source.value.vars # <<>>
    /\ rule_match.dataflow_trace.intermediate_vars # <<>>
    /\ rule_match.dataflow_trace.taint_sink.kind = "CliCall"
    /\ rule_match.dataflow_trace.taint_sink.value.vars # <<>>
    /\ rule_match.dataflow_trace.taint_sink.value.trace.kind = "CliMatchCallTrace"
    /\ EndsInLeaf(rule_match.dataflow_trace.taint_sink)
    /\ AtLevel1(ret.value[1].locations) = {Len(ret.value[1].locations)}
    /\ Len(ret.value[1].locations) >= 7

----------------------------------------------------------------------------
(* Claims about the tags *)

Values(v) ==
    IF ~IsPresent(v) THEN {}
    ELSE IF v.kind = "list" THEN SetOf(v.value)
    ELSE {v.value}

\* The CWE identifiers, OWASP-{id} for each OWASP id, the policy slug and the
\* free-form tags
KeyedTags(md) ==
    Values(md.cwe)
    \cup {OwaspPrefix \o o : o \in Values(md.owasp)}
    \cup (IF IsPresent(md.policy) THEN Values(md.policy.slug) ELSE {})
    \cup Values(md.tags)

\* No duplicates, in the order of Python's string comparison
IsSortedSet(seq) ==
    \A i \in 1..(Len(seq) - 1) : StrLess(seq[i], seq[i + 1])

\* C7, as stated: for every metadata the tag list is sorted, duplicate-free
\* and holds exactly the CWE identifiers, OWASP-{id} per OWASP id,
\* "{confidence} CONFIDENCE" if confidence is present (an empty confidence
\* counted as absent), the policy slug if present and the free-form tags,
\* and nothing else.
C7_TagsAsStated ==
    pc = "tags_returned" =>
        /\ IsSortedSet(ret.value)
        /\ SetOf(ret.value) =
             KeyedTags(rule.metadata)
             \cup {c \o ConfidenceSuffix :
                      c \in Values(rule.metadata.confidence) \ {<<>>}}

\* C7, amended: the tag list is sorted, duplicate-free and holds exactly the
\* CWE identifiers, the tag "security" when the cwe key is present,
\* OWASP-{id} per OWASP id, "{confidence} CONFIDENCE" when confidence is
\* present and not empty, the policy slug if present and the free-form tags.
C7_TagsAmended ==
    pc = "tags_returned" =>
        /\ IsSortedSet(ret.value)
        /\ SetOf(ret.value) =
             KeyedTags(rule.metadata)
             \cup (IF IsPresent(rule.metadata.cwe) THEN {SecurityTag} ELSE {})
             \cup {c \o ConfidenceSuffix :
                      c \in Values(rule.metadata.confidence) \ {<<>>}}

C7_Witness ==
    /\ pc = "tags_returned"
    /\ rule.metadata.cwe = List(<<Cwe89, Cwe79>>)
    /\ rule.metadata.owasp = List(<<OwaspA3, OwaspA1>>)
    /\ rule.metadata.confidence = Str(High)
    /\ rule.metadata.policy = Dict(Str(Slug))
    /\ rule.metadata.tags = List(<<Cwe79, Slug>>)
    /\ Len(ret.value) = 7

----------------------------------------------------------------------------
(* Claims about format *)

Produced(i) == i \in 1..Len(outputs) /\ outputs[i].kind = "Some"

HasTrace(rm) == IsPresent(rm.dataflow_trace)

SarifLevelOfSeverity(severity) ==
    CASE severity = "INFO" -> "note"
      [] severity = "WARNING" -> "warning"
      [] severity = "ERROR" -> "error"

SarifLevelOfErrorLevel(level) ==
    CASE level = "error" -> "error"
      [] level = "warn" -> "warning"

AllLevelsKnown ==
    /\ \A k \in 1..Len(rules) : rules[k].severity \in {"INFO", "WARNING", "ERROR"}
    /\ \A k \in 1..Len(semgrep_structured_errors) :
          semgrep_structured_errors[k].level \in {"error", "warn"}

\* C9: a call of format returns a document only if every rule's severity is
\* INFO, WARNING or ERROR and every error's level is ERROR or WARN, and the
\* document then carries their documented levels; with any other severity or
\* level at any position the call raises and returns no document.
C9_SeverityTotality ==
    \A i \in 1..Len(outputs) :
        /\ outputs[i].kind \in {"Some", "Raise"}
        /\ ~AllLevelsKnown => outputs[i].kind = "Raise"
        /\ outputs[i].kind = "Some" =>
              /\ AllLevelsKnown
              /\ Len(outputs[i].value.rules) = Len(rules)
              /\ \A k \in 1..Len(rules) :
                    outputs[i].value.rules[k].level =
                        SarifLevelOfSeverity(rules[k].severity)
              /\ Len(outputs[i].value.toolExecutionNotifications)
                    = Len(semgrep_structured_errors)
              /\ \A k \in 1..Len(semgrep_structured_errors) :
                    outputs[i].value.toolExecutionNotifications[k].level =
                        SarifLevelOfErrorLevel(semgrep_structured_errors[k].level)

C9_Witness ==
    /\ Len(rules) = 2
    /\ rules[1].severity = "ERROR"
    /\ rules[2].severity = "INVENTORY"
    /\ Len(outputs) >= 1
    /\ outputs[1] = Raise("KeyError")

\* A document is returned, with every level mapped, when all levels are known
AllKnownProduced ==
    /\ AllLevelsKnown
    /\ Len(rules) = 2
    /\ Len(semgrep_structured_errors) = 1
    /\ Len(outputs) >= 1
    /\ outputs[1].kind = "Some"

====
